---------------------------- MODULE Spec2Model ----------------------------
(***************************************************************************)
(* A model of staticcldf: the static-site builder that reads a CLDF        *)
(* dataset and a JSON configuration, fills HTML templates and writes the   *)
(* resulting pages to an output directory.                                 *)
(*                                                                         *)
(* Three specifications share this module:                                 *)
(*   FillSpec  - fill_template's substitution loop (string.Template)       *)
(*   ReadSpec  - the two read_cldf_data extractions                        *)
(*   Spec      - a whole run: load_config, read, render, write             *)
(*                                                                         *)
(* A string is a sequence of one-character strings.                        *)
(***************************************************************************)
EXTENDS Integers, Sequences, FiniteSets, TLC

VARIABLES
    pc,         \* position of the running function
    template,   \* fill_template: the template argument
    replaces,   \* the replaces argument (name -> text)
    source,     \* fill_template: the local variable `source`
    config,     \* the configuration: a list of [key, value], in file order
    dataset,    \* the CLDF dataset: a list of tables
    cldf_data,  \* read_cldf_data: the local variable `cldf_data`
    entry,      \* the entry point of the run
    files,      \* the files the run reads: config.json, contents/, template/
    outdir,     \* the output directory: file name -> content
    out0,       \* the output directory as the run found it
    written     \* the files the run has written, in order

fillVars == <<pc, template, replaces, source>>
readVars == <<pc, config, dataset, cldf_data>>
runVars == <<entry, files, outdir, out0, written>>
notFillVars == <<config, dataset, cldf_data, runVars>>
notReadVars == <<template, replaces, source, runVars>>
vars == <<pc, template, replaces, source, config, dataset, cldf_data, runVars>>

\* the value of a variable the running function does not have
Unused == <<>>

-----------------------------------------------------------------------------
(* Bounds of the model.                                                    *)

\* templates are built from at most this many chunks of TemplateChunks
MaxTplChunks == 3
\* the substitution loop is followed while `source` is at most this long
MaxSrcLen == 14
\* a dataset table has at most this many rows
MaxRows == 2

-----------------------------------------------------------------------------
(* string.Template: the pattern is the delimiter followed by one of     *)
(*   escaped: a second delimiter                                           *)
(*   named:   an identifier, taken as long as it goes                      *)
(*   braced:  an identifier between braces                                 *)
(*   invalid: anything else (the empty match)                              *)

Delimiter == "$"

\* the identifier characters of the model's alphabet
IdChars == {"a", "b"}

\* the length of the longest run of identifier characters of s starting at i
RECURSIVE IdRun(_, _)
IdRun(s, i) ==
    IF i <= Len(s) /\ s[i] \in IdChars THEN 1 + IdRun(s, i + 1) ELSE 0

\* the match of the pattern at position i of s, where s[i] is the delimiter:
\* its group, the length of the matched text and the identifier it names
TokenAt(s, i) ==
    LET n == IdRun(s, i + 1)
        k == IdRun(s, i + 2)
    IN  IF i + 1 <= Len(s) /\ s[i + 1] = Delimiter
          THEN [kind |-> "escaped", len |-> 2, name |-> <<>>]
        ELSE IF n > 0
          THEN [kind |-> "named", len |-> 1 + n, name |-> SubSeq(s, i + 1, i + n)]
        ELSE IF /\ i + 1 <= Len(s) /\ s[i + 1] = "{"
                /\ k > 0
                /\ i + 2 + k <= Len(s) /\ s[i + 2 + k] = "}"
          THEN [kind |-> "braced", len |-> 3 + k, name |-> SubSeq(s, i + 2, i + 1 + k)]
        ELSE [kind |-> "invalid", len |-> 1, name |-> <<>>]

\* convert(mo) with a placeholder that is no key replaced by nothing
ConvertDropUnknown(s, m, i) ==
    LET tok == TokenAt(s, i)
    IN  CASE tok.kind = "escaped" -> <<Delimiter>>
          [] tok.kind \in {"named", "braced"} ->
                IF tok.name \in DOMAIN m THEN m[tok.name] ELSE <<>>
          [] OTHER -> SubSeq(s, i, i + tok.len - 1)

\* safe_substitute's convert(mo): the text that replaces one match
Convert(s, m, i) ==
    LET tok == TokenAt(s, i)
    IN  CASE tok.kind = "escaped" -> <<Delimiter>>
          [] tok.kind \in {"named", "braced"} ->
                IF tok.name \in DOMAIN m
                  THEN m[tok.name]
                  ELSE SubSeq(s, i, i + tok.len - 1)
          [] OTHER -> SubSeq(s, i, i + tok.len - 1)

\* Template(s).safe_substitute(m), scanning s from position i: one pass,
\* the matches taken left to right and not overlapping
RECURSIVE SubstituteFrom(_, _, _)
SubstituteFrom(s, m, i) ==
    IF i > Len(s) THEN <<>>
    ELSE IF s[i] # Delimiter THEN <<s[i]>> \o SubstituteFrom(s, m, i + 1)
    ELSE Convert(s, m, i) \o SubstituteFrom(s, m, i + TokenAt(s, i).len)

SafeSubstitute(s, m) == SubstituteFrom(s, m, 1)

-----------------------------------------------------------------------------
(* Reading a string as Template reads it.                                  *)

\* the matches of the pattern in s from position i on: <<position, token>>
RECURSIVE TokensFrom(_, _)
TokensFrom(s, i) ==
    IF i > Len(s) THEN {}
    ELSE IF s[i] # Delimiter THEN TokensFrom(s, i + 1)
    ELSE {<<i, TokenAt(s, i)>>} \cup TokensFrom(s, i + TokenAt(s, i).len)

\* the names of the placeholders of s
Placeholders(s) ==
    {t[2].name : t \in {u \in TokensFrom(s, 1) : u[2].kind \in {"named", "braced"}}}

\* the names of the braced placeholders of s
BracedPlaceholders(s) ==
    {t[2].name : t \in {u \in TokensFrom(s, 1) : u[2].kind = "braced"}}

\* s has an escaped delimiter
HasEscape(s) == \E t \in TokensFrom(s, 1) : t[2].kind = "escaped"

\* t occurs in s as a contiguous piece of text
Occurs(t, s) ==
    \E i \in 1..(Len(s) - Len(t) + 1) : SubSeq(s, i, i + Len(t) - 1) = t

\* the text of a braced placeholder
Braced(name) == <<Delimiter, "{">> \o name \o <<"}">>

-----------------------------------------------------------------------------
(* The inputs of fill_template.                                            *)

\* the keys a replacement mapping may have
Keys == {<<"b">>, <<"a", "b">>}

TemplateChunks ==
    { <<"$">>, <<"{">>, <<"}">>, <<"a">>, <<"b">>,
      <<"$", "{", "b", "}">>, <<"$", "{", "a", "}">> }

RECURSIVE ChunkSeqs(_)
ChunkSeqs(n) ==
    IF n = 0 THEN {<<>>}
    ELSE ChunkSeqs(n - 1) \cup
         {s \o c : s \in ChunkSeqs(n - 1), c \in TemplateChunks}

Templates == ChunkSeqs(MaxTplChunks)

\* the texts the key b may stand for
TextsOfB ==
    { <<>>,
      <<"b">>,
      <<"$", "$", "b">>,
      <<"$", "b">>,
      <<"$", "{", "a", "b", "}">>,
      <<"$", "{", "a", "b", "}", "b">>,
      <<"}", "$", "b">> }

\* the texts the key ab may stand for
TextsOfAb ==
    { <<"$">>,
      <<"}">>,
      <<"$", "b">> }

ReplacementTexts(k) == IF k = <<"b">> THEN TextsOfB ELSE TextsOfAb

Mappings ==
    UNION { {m \in [K -> TextsOfB \cup TextsOfAb] :
                \A k \in K : m[k] \in ReplacementTexts(k)} : K \in SUBSET Keys }

\* key k refers to key j: the text of k holds a placeholder named j
Refers(m, k, j) == j \in Placeholders(m[k])

\* the keys reached from k by following references, in at most n steps
RECURSIVE Reach(_, _, _)
Reach(m, S, n) ==
    IF n = 0 THEN S
    ELSE Reach(m, S \cup {j \in DOMAIN m : \E k \in S : Refers(m, k, j)}, n - 1)

\* no key's text leads back to the key through placeholders
Acyclic(m) ==
    \A k \in DOMAIN m :
        k \notin Reach(m, {j \in DOMAIN m : Refers(m, k, j)}, Cardinality(DOMAIN m))

-----------------------------------------------------------------------------
(* fill_template(template, replaces)                                       *)

FillInit ==
    /\ template \in Templates
    /\ replaces \in Mappings
    /\ source = template
    /\ pc = "loop"
    /\ config = Unused /\ dataset = Unused /\ cldf_data = Unused
    /\ entry = Unused /\ files = Unused
    /\ outdir = Unused /\ out0 = Unused /\ written = Unused

\* new_source != source: source = new_source, and round again
FillPass ==
    /\ pc = "loop"
    /\ SafeSubstitute(source, replaces) # source
    /\ Len(SafeSubstitute(source, replaces)) <= MaxSrcLen
    /\ source' = SafeSubstitute(source, replaces)
    /\ UNCHANGED <<pc, template, replaces>>
    /\ UNCHANGED notFillVars

\* new_source == source: break, return source
FillReturn ==
    /\ pc = "loop"
    /\ SafeSubstitute(source, replaces) = source
    /\ pc' = "done"
    /\ UNCHANGED <<template, replaces, source>>
    /\ UNCHANGED notFillVars

\* the loop goes on with a source longer than the model follows
FillBeyond ==
    /\ pc = "loop"
    /\ SafeSubstitute(source, replaces) # source
    /\ Len(SafeSubstitute(source, replaces)) > MaxSrcLen
    /\ pc' = "beyond"
    /\ UNCHANGED <<template, replaces, source>>
    /\ UNCHANGED notFillVars

FillNext == FillPass \/ FillReturn \/ FillBeyond

FillSpec == FillInit /\ [][FillNext]_vars

\* the loop is sequential code: a step that can be taken is taken
FillFairSpec == FillSpec /\ WF_vars(FillNext)


-----------------------------------------------------------------------------
(* Claims about fill_template.                                             *)

\* the texts of the placeholders of s whose names are not keys of m
UnknownTexts(s, m) ==
    {SubSeq(s, t[1], t[1] + t[2].len - 1) :
        t \in {u \in TokensFrom(s, 1) :
                  /\ u[2].kind \in {"named", "braced"}
                  /\ u[2].name \notin DOMAIN m}}

\* no text of m has an escaped delimiter or a placeholder for its own key
PlainTexts(m) ==
    \A k \in DOMAIN m : ~HasEscape(m[k]) /\ k \notin Placeholders(m[k])

\* C3: for every template and every acyclic replacement mapping
\* fill_template terminates, and what it returns is a fixed point of a
\* substitution pass with the same mapping
C3_TerminatesAtFixedPoint ==
    <>( \/ ~Acyclic(replaces)
        \/ pc = "beyond"
        \/ pc = "done" /\ SafeSubstitute(source, replaces) = source )

\* C4 as claimed: in the result no placeholder names a key of the mapping,
\* and every placeholder of the template whose name is not a key is in the
\* result as it was written
C4_AsClaimed ==
    pc = "done" =>
        /\ Placeholders(source) \cap DOMAIN replaces = {}
        /\ \A t \in UnknownTexts(template, replaces) : Occurs(t, source)

\* C4 as amended: when no text of the mapping has an escaped delimiter or a
\* placeholder for its own key, no placeholder of the result names a key
\* (placeholders inside replacement texts were resolved in later passes);
\* and every braced placeholder of the template whose name is not a key is
\* in the result as it was written
C4_ResolvedAndVerbatim ==
    pc = "done" =>
        /\ PlainTexts(replaces) => Placeholders(source) \cap DOMAIN replaces = {}
        /\ \A n \in BracedPlaceholders(template) \ DOMAIN replaces :
               Occurs(Braced(n), source)

\* C4's case: a returned result of a template with a key whose text holds
\* another key's placeholder, and with a braced placeholder that is no key
C4_Witness ==
    /\ pc = "done"
    /\ PlainTexts(replaces)
    /\ \E k \in Placeholders(template) \cap DOMAIN replaces :
          Placeholders(replaces[k]) \cap DOMAIN replaces # {}
    /\ BracedPlaceholders(template) \ DOMAIN replaces # {}
    /\ source # template


-----------------------------------------------------------------------------
(* The CLDF dataset as pycldf hands it over.                               *)
(*                                                                         *)
(* A cell is None, a string or a list of strings.  A name with             *)
(* separators (a configuration key, a file name) is the list of the words  *)
(* between its separators: form_table is <<"form", "table">>.              *)

None == [kind |-> "none", str |-> <<>>, items |-> <<>>]
Str(s) == [kind |-> "str", str |-> s, items |-> <<>>]
List(xs) == [kind |-> "list", str |-> <<>>, items |-> xs]

\* isinstance(value, (list, tuple))
IsMultiValued(cell) == cell.kind = "list"

\* " ".join(items) without its separator
RECURSIVE JoinNoSpace(_)
JoinNoSpace(items) ==
    IF Len(items) = 0 THEN <<>> ELSE Head(items) \o JoinNoSpace(Tail(items))

\* " ".join(items)
RECURSIVE Join(_)
Join(items) ==
    IF Len(items) = 0 THEN <<>>
    ELSE IF Len(items) = 1 THEN Head(items)
    ELSE Head(items) \o <<" ">> \o Join(Tail(items))

\* a cell converted with None turned into the empty string
FlattenNoneToEmpty(cell) ==
    IF cell.kind = "none" THEN Str(<<>>)
    ELSE IF IsMultiValued(cell) THEN Str(Join(cell.items)) ELSE cell

\* " ".join(row[field]) if isinstance(row[field], (list, tuple)) else row[field]
Flatten(cell) ==
    IF IsMultiValued(cell) THEN Str(Join(cell.items)) ELSE cell

\* str.capitalize() on the words of the model
Capitalize(w) ==
    CASE w \in {"form", "Form", "FORM"} -> "Form"
      [] w \in {"forms", "Forms"} -> "Forms"
      [] w \in {"language", "Language"} -> "Language"
      [] w \in {"languages", "Languages"} -> "Languages"
      [] w \in {"parameter", "Parameter"} -> "Parameter"
      [] w \in {"parameters", "Parameters"} -> "Parameters"
      [] w \in {"cognate", "Cognate"} -> "Cognate"
      [] w \in {"cognates", "Cognates"} -> "Cognates"
      [] w \in {"values", "Values"} -> "Values"
      [] OTHER -> w

\* key.endswith("_table")
IsTableKey(key) == Len(key) >= 2 /\ key[Len(key)] = "table"

\* table.split("_")[0]
TableName(key) == <<key[1]>>

\* "%sTable" % table_name.capitalize()
CldfTable(table_name) == <<Capitalize(table_name[1]), "Table">>

\* dataset[cldf_table] is there
HasTable(ds, cldf_table) == \E i \in 1..Len(ds) : ds[i].component = cldf_table

\* dataset[cldf_table]
LookupTable(ds, cldf_table) ==
    ds[CHOOSE i \in 1..Len(ds) : ds[i].component = cldf_table]

\* d[k] = v on a dictionary
Put(d, k, v) == [x \in DOMAIN d \cup {k} |-> IF x = k THEN v ELSE d[x]]

EmptyDict == [x \in {} |-> <<>>]

\* a row extracted with its empty cells left out
ExtractRowSkipEmpty(row, fields) ==
    LET all == [i \in 1..Len(fields) |-> Flatten(row[fields[i]])]
    IN  SelectSeq(all, LAMBDA c : c # None)

\* [flatten(row[field]) for field in config[table]]
ExtractRow(row, fields) ==
    [i \in 1..Len(fields) |-> Flatten(row[fields[i]])]

\* [[...] for row in dataset[cldf_table]]
ExtractRows(rows, fields) ==
    [r \in 1..Len(rows) |-> ExtractRow(rows[r], fields)]

\* row[field] raises KeyError for some row of the table
MissingField(rows, fields) ==
    \E r \in 1..Len(rows) : \E i \in 1..Len(fields) : fields[i] \notin DOMAIN rows[r]

\* read_cldf_data(base_path, config), the column-selecting reader: the loop
\* over the keys of config from the i-th on, with the cldf_data built so far
RECURSIVE ReadTablesFrom(_, _, _, _)
ReadTablesFrom(cfg, ds, i, acc) ==
    IF i > Len(cfg) THEN [raised |-> FALSE, data |-> acc]
    ELSE IF ~IsTableKey(cfg[i].key) THEN ReadTablesFrom(cfg, ds, i + 1, acc)
    ELSE LET table_name == TableName(cfg[i].key)
             cldf_table == CldfTable(table_name)
         IN  IF ~HasTable(ds, cldf_table) THEN [raised |-> TRUE, data |-> acc]
             ELSE IF MissingField(LookupTable(ds, cldf_table).rows, cfg[i].value)
               THEN [raised |-> TRUE, data |-> acc]
             ELSE ReadTablesFrom(cfg, ds, i + 1,
                     Put(acc, table_name,
                         ExtractRows(LookupTable(ds, cldf_table).rows, cfg[i].value)))

ReadSelected(cfg, ds) == ReadTablesFrom(cfg, ds, 1, EmptyDict)

-----------------------------------------------------------------------------
(* The inputs of read_cldf_data.                                           *)

X == <<"x">>
Y == <<"y">>
XY == <<"x", " ", "y">>

\* the rows a FormTable may hold: columns A and B
FormRows ==
    { [A |-> a, B |-> b] :
        a \in {None, Str(XY), List(<<X, Y>>)},
        b \in {Str(<<>>), List(<<>>)} }

\* the rows a LanguageTable may hold: column A
LanguageRows == { [A |-> Str(Y)] }

RECURSIVE RowLists(_, _)
RowLists(rows, n) ==
    IF n = 0 THEN {<<>>}
    ELSE RowLists(rows, n - 1) \cup
         {Append(l, r) : l \in {k \in RowLists(rows, n - 1) : Len(k) = n - 1},
                         r \in rows}

FormTables ==
    { [component |-> <<"Form", "Table">>, local_name |-> <<"forms", "csv">>,
       columns |-> <<"A", "B">>, rows |-> rs] : rs \in RowLists(FormRows, MaxRows) }

LanguageTables ==
    { [component |-> <<"Language", "Table">>, local_name |-> <<"languages", "csv">>,
       columns |-> <<"A">>, rows |-> rs] : rs \in RowLists(LanguageRows, MaxRows) }

Datasets ==
    {<<f>> : f \in FormTables} \cup
    {<<f, l>> : f \in FormTables, l \in LanguageTables}

\* the entries a configuration may hold, in the order of the file
OutputPathEntries == {[key |-> <<"output", "path">>, value |-> <<>>]}
FormEntries ==
    {[key |-> <<"form", "table">>, value |-> c] :
        c \in {<<"A">>, <<"B", "A">>, <<"A", "C">>}}
LanguageEntries ==
    {[key |-> <<"language", "table">>, value |-> c] : c \in {<<"A">>, <<>>}}
FormXEntries ==
    {[key |-> <<"form", "x", "table">>, value |-> c] : c \in {<<"B">>, <<"B", "A">>}}

Optional(entries) == {<<>>} \cup {<<e>> : e \in entries}

ReadConfigs ==
    { o \o f \o l \o x :
        o \in Optional(OutputPathEntries), f \in Optional(FormEntries),
        l \in Optional(LanguageEntries), x \in Optional(FormXEntries) }

-----------------------------------------------------------------------------
(* read_cldf_data(base_path, config) as one step.                          *)

ReadInit ==
    /\ config \in ReadConfigs
    /\ dataset \in Datasets
    /\ cldf_data = EmptyDict
    /\ pc = "read_cldf_data"
    /\ template = Unused /\ replaces = Unused /\ source = Unused
    /\ entry = Unused /\ files = Unused
    /\ outdir = Unused /\ out0 = Unused /\ written = Unused

\* return cldf_data
ReadReturn ==
    /\ pc = "read_cldf_data"
    /\ ~ReadSelected(config, dataset).raised
    /\ cldf_data' = ReadSelected(config, dataset).data
    /\ pc' = "returned"
    /\ UNCHANGED <<config, dataset>>
    /\ UNCHANGED notReadVars

\* dataset[cldf_table] or row[field] raises KeyError
ReadRaise ==
    /\ pc = "read_cldf_data"
    /\ ReadSelected(config, dataset).raised
    /\ pc' = "raised"
    /\ UNCHANGED <<config, dataset, cldf_data>>
    /\ UNCHANGED notReadVars

ReadNext == ReadReturn \/ ReadRaise

ReadSpec == ReadInit /\ [][ReadNext]_vars
-----------------------------------------------------------------------------
(* Claims about the column-selecting read_cldf_data.                       *)

\* the places of the `<name>_table` keys in the configuration
TableKeyPlaces == {i \in 1..Len(config) : IsTableKey(config[i].key)}

\* the place of the key read_cldf_data stored the entry n for: the last
\* key with that table name
PlaceOf(n) ==
    CHOOSE i \in TableKeyPlaces :
        /\ TableName(config[i].key) = n
        /\ \A j \in TableKeyPlaces : TableName(config[j].key) = n => j <= i

\* the column list configured for the entry n
FieldsOf(n) == config[PlaceOf(n)].value

\* the rows of the dataset table the entry n was read from
SourceRowsOf(n) == LookupTable(dataset, CldfTable(n)).rows

\* the source cell of cell i of row r of the entry n
SourceCell(n, r, i) == SourceRowsOf(n)[r][FieldsOf(n)[i]]

\* the cells of the result: <<entry, row, cell>>
ResultCells ==
    {c \in (DOMAIN cldf_data) \X (1..MaxRows + 1) \X (1..3) :
        c[2] <= Len(cldf_data[c[1]]) /\ c[3] <= Len(cldf_data[c[1]][c[2]])}

\* where item k of items starts in the joined text, less one
RECURSIVE Offset(_, _)
Offset(items, k) ==
    IF k = 1 THEN 0 ELSE Offset(items, k - 1) + Len(items[k - 1]) + 1

\* text is the items in their order with exactly one space between neighbours
JoinedBySpaces(items, text) ==
    /\ Len(text) = IF Len(items) = 0 THEN 0
                   ELSE Offset(items, Len(items)) + Len(items[Len(items)])
    /\ \A k \in 1..Len(items) :
          /\ SubSeq(text, Offset(items, k) + 1, Offset(items, k) + Len(items[k]))
                = items[k]
          /\ k > 1 => text[Offset(items, k)] = " "

\* C5: every cell of a returned table is flat: a multi-valued source cell
\* is stored as the string of its items, in their order, joined by exactly
\* one space; no cell is a list; a source cell that is a string already is
\* stored as it is
C5_CellsAreFlat ==
    pc = "returned" =>
        \A c \in ResultCells :
            LET n == c[1]  r == c[2]  i == c[3]
            IN  /\ ~IsMultiValued(cldf_data[n][r][i])
                /\ IsMultiValued(SourceCell(n, r, i)) =>
                      /\ cldf_data[n][r][i].kind = "str"
                      /\ JoinedBySpaces(SourceCell(n, r, i).items,
                                        cldf_data[n][r][i].str)
                /\ SourceCell(n, r, i).kind = "str" =>
                      cldf_data[n][r][i] = SourceCell(n, r, i)

\* C5's case: a returned table with a cell joined from two items and a cell
\* whose source was that joined string already
C5_Witness ==
    /\ pc = "returned"
    /\ \E c \in ResultCells, d \in ResultCells :
          /\ SourceCell(c[1], c[2], c[3]) = List(<<X, Y>>)
          /\ SourceCell(d[1], d[2], d[3]) = Str(XY)
          /\ cldf_data[c[1]][c[2]][c[3]] = cldf_data[d[1]][d[2]][d[3]]

\* C6 as claimed: a source cell that is not multi-valued is stored
\* unchanged, and an absent value or an empty multi-valued cell is stored
\* as the empty string, in its place in the row
C6_AsClaimed ==
    pc = "returned" =>
        \A n \in DOMAIN cldf_data : \A r \in 1..Len(cldf_data[n]) :
            /\ Len(cldf_data[n][r]) = Len(FieldsOf(n))
            /\ \A i \in 1..Len(FieldsOf(n)) :
                  /\ SourceCell(n, r, i).kind = "str" =>
                        cldf_data[n][r][i] = SourceCell(n, r, i)
                  /\ SourceCell(n, r, i) \in {None, List(<<>>)} =>
                        cldf_data[n][r][i] = Str(<<>>)

\* C6 as amended: a source cell that is not multi-valued is stored
\* unchanged, an absent value (None) included, which stays None; an empty
\* multi-valued cell is stored as the empty string; every cell keeps its
\* place in the row, none is dropped
C6_PassThrough ==
    pc = "returned" =>
        \A n \in DOMAIN cldf_data : \A r \in 1..Len(cldf_data[n]) :
            /\ Len(cldf_data[n][r]) = Len(FieldsOf(n))
            /\ \A i \in 1..Len(FieldsOf(n)) :
                  /\ ~IsMultiValued(SourceCell(n, r, i)) =>
                        cldf_data[n][r][i] = SourceCell(n, r, i)
                  /\ SourceCell(n, r, i) = List(<<>>) =>
                        cldf_data[n][r][i] = Str(<<>>)

\* C6's case: a returned row that holds an absent value and an empty
\* multi-valued cell
C6_Witness ==
    /\ pc = "returned"
    /\ \E c \in ResultCells, d \in ResultCells :
          /\ c[1] = d[1] /\ c[2] = d[2]
          /\ SourceCell(c[1], c[2], c[3]) = None
          /\ SourceCell(d[1], d[2], d[3]) = List(<<>>)

NameOf(key) == SubSeq(key, 1, Len(key) - 1)

\* C8: the result has exactly one entry for every `<name>_table` key, under
\* `<name>`, and cell i of row r of the entry is the flattened value of the
\* i-th configured column of row r of the table `<Name>Table`
C8_OneEntryPerTableKey ==
    pc = "returned" =>
        /\ DOMAIN cldf_data = {NameOf(config[p].key) : p \in TableKeyPlaces}
        /\ \A p \in TableKeyPlaces :
              LET n == NameOf(config[p].key)
                  rows == LookupTable(dataset, CldfTable(n)).rows
              IN  /\ Len(cldf_data[n]) = Len(rows)
                  /\ \A r \in 1..Len(rows) :
                        /\ Len(cldf_data[n][r]) = Len(config[p].value)
                        /\ \A i \in 1..Len(config[p].value) :
                              cldf_data[n][r][i] = Flatten(rows[r][config[p].value[i]])
-----------------------------------------------------------------------------
(* A run: the files it reads.                                              *)

\* a placeholder of the mapping holds text: a list of pieces
Text(piece) == <<piece>>

\* markdown.markdown(text)
Markdown(text) == <<"<p>">> \o text \o <<"</p>">>

\* the scalar keys load_config pops, in the order of the dictionary display
ScalarKeys == <<"title", "description", "author", "favicon", "mainlink", "citation">>

\* the content keys load_config pops, each with the placeholder it fills
FragmentKeys == <<"footer", "index", "sidebar">>
FragmentPlaceholder(k) ==
    CASE k = "footer" -> "footer"
      [] k = "index" -> "home_sb_main"
      [] k = "sidebar" -> "home_sidebar"

\* key in config
HasKey(cfg, key) == \E i \in 1..Len(cfg) : cfg[i].key = key

\* config[key]
Get(cfg, key) == cfg[CHOOSE i \in 1..Len(cfg) : cfg[i].key = key].value

\* config after a config.pop(key) that leaves the key in
PopKeepsKey(cfg, key) == cfg

\* config after config.pop(key)
Pop(cfg, key) == SelectSeq(cfg, LAMBDA e : e.key # key)

\* config.json: the scalar entries
ScalarEntries ==
    [i \in 1..Len(ScalarKeys) |->
        [key |-> <<ScalarKeys[i]>>,
         value |-> Text(IF ScalarKeys[i] = "title" THEN "Demo" ELSE ScalarKeys[i])]]

\* config.json: the entries naming the content files
FragmentEntries ==
    [i \in 1..Len(FragmentKeys) |->
        [key |-> <<FragmentKeys[i], "file">>, value |-> <<FragmentKeys[i], "md">>]]

\* config.json: output_path and the column lists of the tables
SiteEntries ==
    << [key |-> <<"output", "path">>, value |-> Text("_site")],
       [key |-> <<"form", "table">>, value |-> <<"ID", "Segments">>],
       [key |-> <<"language", "table">>, value |-> <<"Name", "Glottocode">>],
       [key |-> <<"parameter", "table">>, value |-> <<"ID">>] >>

FullConfig == ScalarEntries \o FragmentEntries \o SiteEntries

\* the config.json files a run may find
ConfigFiles == {FullConfig, Pop(FullConfig, <<"citation">>)}

\* contents/: the fragment files that are there, file name -> text
AllContents == [f \in {<<FragmentKeys[i], "md">> : i \in 1..3} |-> Text(f[1])]
ContentDirs ==
    {AllContents} \cup
    {[f \in DOMAIN AllContents \ {g} |-> AllContents[f]] : g \in DOMAIN AllContents}

\* template/: the template files that are there
AllTemplates ==
    { <<"with_sidebar", "html">>, <<"no_sidebar", "html">>,
      <<"layout", "html">>, <<"main", "css">> }
TemplateDirs ==
    { AllTemplates,
      AllTemplates \ {<<"no_sidebar", "html">>, <<"layout", "html">>},
      AllTemplates \ {<<"main", "css">>} }

\* the tables a dataset may hold
FormsTable ==
    [component |-> <<"Form", "Table">>, local_name |-> <<"forms", "csv">>,
     columns |-> <<"ID", "Segments">>,
     rows |-> << [ID |-> Str(<<"f1">>), Segments |-> List(<<X, Y>>)] >>]
LanguagesTable ==
    [component |-> <<"Language", "Table">>, local_name |-> <<"languages", "csv">>,
     columns |-> <<"Name", "Glottocode">>,
     rows |-> << [Name |-> Str(<<"Lang1">>), Glottocode |-> Str(<<"abc1">>)],
                 [Name |-> Str(<<"Lang2">>), Glottocode |-> Str(<<"abc2">>)] >>]
ParametersTable ==
    [component |-> <<"Parameter", "Table">>, local_name |-> <<"parameters", "csv">>,
     columns |-> <<"ID">>,
     rows |-> << [ID |-> Str(<<"p1">>)] >>]
CognatesTable ==
    [component |-> <<"Cognate", "Table">>, local_name |-> <<"cognates", "csv">>,
     columns |-> <<"ID">>,
     rows |-> << [ID |-> Str(<<"c1">>)] >>]
ValuesTable ==
    [component |-> <<"Value", "Table">>, local_name |-> <<"values", "csv">>,
     columns |-> <<"ID">>,
     rows |-> << [ID |-> None] >>]

SiteDatasets ==
    { <<FormsTable, LanguagesTable>> \o p \o c \o v :
        p \in {<<>>, <<ParametersTable>>},
        c \in {<<>>, <<CognatesTable>>},
        v \in {<<>>, <<ValuesTable>>} }

\* what a run may find to read
InputFiles ==
    [config : ConfigFiles, contents : ContentDirs, templates : TemplateDirs]

\* what the output directory may hold before the first run
OldContent == [template |-> <<"old">>, context |-> EmptyDict, extras |-> EmptyDict]
OldOutputs ==
    UNION { [S -> {OldContent}] :
              S \in SUBSET {<<"index", "html">>, <<"notes", "txt">>} }

-----------------------------------------------------------------------------
(* A run: the stages.                                                      *)

\* load_config: open config.json, pop the scalar keys, then read the three
\* content files
LoadConfigStages == << "config", "scalars", "footer", "index", "sidebar" >>

\* main() of build_site.py: load_config, the paths, read_cldf_data,
\* load_templates, build_html for index.html, build_tables
MainStages ==
    LoadConfigStages \o
    << "paths", "dataset", "templates", "index.html", "forms.html",
       "languages.html", "parameters.html", "done" >>

\* render_html with the cognates page left out
RenderHtmlNoCognates ==
    << "templates", "index.html", "forms.html", "languages.html",
       "parameters.html", "css_source", "main.css" >>

\* render_html: load_templates, build_html for index.html, build_tables,
\* build_css
RenderHtmlStages ==
    << "templates", "index.html", "forms.html", "languages.html",
       "parameters.html", "cognates.html", "css_source", "main.css" >>

\* the package: Loader, Dataset Reader, then the Renderer and Writer
PackageStages ==
    LoadConfigStages \o << "dataset" >> \o RenderHtmlStages \o << "done" >>

Stages(e) == IF e = "main" THEN MainStages ELSE PackageStages

\* the stage after stage st
After(e, st) ==
    Stages(e)[1 + CHOOSE i \in 1..Len(Stages(e)) : Stages(e)[i] = st]

\* the stages of load_config
LoaderStages == {LoadConfigStages[i] : i \in 1..Len(LoadConfigStages)}

\* the table pages of build_tables: stage -> the file, and the entry of
\* cldf_data it shows
TablePages(e) ==
    IF e = "main"
      THEN [ p \in {"forms.html", "languages.html", "parameters.html"} |->
               CASE p = "forms.html" ->
                      [file |-> <<"forms", "html">>, data |-> <<"form">>]
                 [] p = "languages.html" ->
                      [file |-> <<"languages", "html">>, data |-> <<"language">>]
                 [] p = "parameters.html" ->
                      [file |-> <<"parameters", "html">>, data |-> <<"parameter">>] ]
      ELSE [ p \in {"forms.html", "languages.html", "parameters.html",
                    "cognates.html"} |->
               CASE p = "forms.html" ->
                      [file |-> <<"forms", "html">>, data |-> <<"Forms">>]
                 [] p = "languages.html" ->
                      [file |-> <<"languages", "html">>, data |-> <<"Languages">>]
                 [] p = "parameters.html" ->
                      [file |-> <<"parameters", "html">>, data |-> <<"Parameters">>]
                 [] p = "cognates.html" ->
                      [file |-> <<"cognates", "html">>, data |-> <<"Cognates">>] ]

\* the placeholder build_tables puts the table under
FragmentKey(e) == IF e = "main" THEN "home_nosb_main" ELSE "contents"

\* the template build_tables renders
PageTemplate(e) == IF e = "main" THEN <<"no_sidebar", "html">> ELSE <<"layout", "html">>

\* the template index.html is rendered from
IndexTemplate(e) == IF e = "main" THEN <<"with_sidebar", "html">> ELSE <<"layout", "html">>

\* the column names as the first row of a table
HeaderRow(columns) == [i \in 1..Len(columns) |-> Str(<<columns[i]>>)]

\* read_cldf_data(config) of input_cldf.py, the full-table reader: the loop
\* over dataset.tables from the i-th on
RECURSIVE ReadAllFrom(_, _, _)
ReadAllFrom(ds, i, acc) ==
    IF i > Len(ds) THEN acc
    ELSE ReadAllFrom(ds, i + 1,
            Put(acc, <<Capitalize(ds[i].local_name[1])>>,
                <<HeaderRow(ds[i].columns)>> \o ExtractRows(ds[i].rows, ds[i].columns)))

ReadAll(ds) == ReadAllFrom(ds, 1, EmptyDict)

\* tabulate(data, headers=..., tablefmt="html") with <table> replaced by
\* <table id="data_table" class="display">
HtmlTable(e, cfg, data, name) ==
    IF e = "main"
      THEN [id |-> "data_table", class |-> "display",
            headers |-> HeaderRow(Get(cfg, name \o <<"table">>)), rows |-> data[name]]
      ELSE [id |-> "data_table", class |-> "display",
            headers |-> IF Len(data[name]) = 0 THEN <<>> ELSE Head(data[name]),
            rows |-> IF Len(data[name]) = 0 THEN <<>> ELSE Tail(data[name])]

\* the base mapping after a page's `replaces.copy()` was handed its table,
\* were the copy the base mapping itself
BaseAliased(base, page_replaces) == page_replaces

\* the base mapping after a page's `replaces.copy()` was handed its table
BaseAfterCopy(base, page_replaces) == base

\* the source build_html writes: template rendered with the mapping
\* (fill_template in build_site.py; template.render, which is also given
\* `file`, in the package)
Render(e, tpl, mapping, output_file) ==
    [template |-> tpl, context |-> mapping,
     extras |-> IF e = "main" THEN EmptyDict ELSE [file |-> output_file]]

\* open(file_path, "w") and write, the directory emptied first
WriteFileAlone(dir, output_file, content) ==
    [f \in {output_file} |-> content]

\* open(file_path, "w") and handler.write(source)
WriteFile(dir, output_file, content) == Put(dir, output_file, content)

\* open(content_path) never raising
NoFragmentMissing(fs, cfg, k) == FALSE

\* open(content_path) raises: the file config names for fragment k is not there
FragmentMissing(fs, cfg, k) == Get(cfg, <<k, "file">>) \notin DOMAIN fs.contents

\* handler.read() of the fragment file
FragmentText(fs, cfg, k) ==
    IF Get(cfg, <<k, "file">>) \in DOMAIN fs.contents
      THEN fs.contents[Get(cfg, <<k, "file">>)]
      ELSE <<>>

-----------------------------------------------------------------------------
(* A run: the steps.                                                       *)

\* the run has not read or built anything yet
Fresh(fs, ds, dir) ==
    /\ pc = "config"
    /\ files = fs
    /\ dataset = ds
    /\ outdir = dir
    /\ out0 = dir
    /\ written = <<>>
    /\ config = <<>>
    /\ replaces = EmptyDict
    /\ cldf_data = EmptyDict
    /\ template = <<>>
    /\ source = Unused

Init ==
    /\ entry \in {"main", "render_html"}
    /\ \E fs \in InputFiles, ds \in SiteDatasets, dir \in OldOutputs :
          Fresh(fs, ds, dir)

runFrame == <<entry, files, dataset, out0, source>>

\* json.load of config.json
LoadJson ==
    /\ pc = "config"
    /\ config' = files.config
    /\ pc' = After(entry, pc)
    /\ UNCHANGED <<replaces, cldf_data, template, outdir, written, runFrame>>

\* the six config.pop of the scalar keys, all there
PopScalars ==
    /\ pc = "scalars"
    /\ \A i \in 1..Len(ScalarKeys) : HasKey(config, <<ScalarKeys[i]>>)
    /\ replaces' = [k \in {ScalarKeys[i] : i \in 1..Len(ScalarKeys)} |->
                      Get(config, <<k>>)]
    /\ config' = SelectSeq(config,
                    LAMBDA e : \A i \in 1..Len(ScalarKeys) : e.key # <<ScalarKeys[i]>>)
    /\ pc' = After(entry, pc)
    /\ UNCHANGED <<cldf_data, template, outdir, written, runFrame>>

\* a config.pop of a scalar key raises KeyError
PopScalarsRaise ==
    /\ pc = "scalars"
    /\ \E i \in 1..Len(ScalarKeys) : ~HasKey(config, <<ScalarKeys[i]>>)
    /\ pc' = "aborted"
    /\ UNCHANGED <<config, replaces, cldf_data, template, outdir, written, runFrame>>

\* _md2html(config.pop(...)) of one content file
ReadFragment ==
    /\ pc \in {"footer", "index", "sidebar"}
    /\ ~FragmentMissing(files, config, pc)
    /\ replaces' = Put(replaces, FragmentPlaceholder(pc),
                       Markdown(FragmentText(files, config, pc)))
    /\ config' = Pop(config, <<pc, "file">>)
    /\ pc' = After(entry, pc)
    /\ UNCHANGED <<cldf_data, template, outdir, written, runFrame>>

\* open(content_path) raises
ReadFragmentRaise ==
    /\ pc \in {"footer", "index", "sidebar"}
    /\ FragmentMissing(files, config, pc)
    /\ pc' = "aborted"
    /\ config' = Pop(config, <<pc, "file">>)
    /\ UNCHANGED <<replaces, cldf_data, template, outdir, written, runFrame>>

\* config["base_path"] = base_path and
\* config["output_path"] = base_path / config["output_path"]
SetPaths ==
    /\ pc = "paths"
    /\ config' = [i \in 1..Len(config) |->
                    IF config[i].key = <<"output", "path">>
                      THEN [key |-> config[i].key,
                            value |-> <<"base">> \o config[i].value]
                      ELSE config[i]]
                 \o << [key |-> <<"base", "path">>, value |-> <<"base">>] >>
    /\ pc' = After(entry, pc)
    /\ UNCHANGED <<replaces, cldf_data, template, outdir, written, runFrame>>

\* read_cldf_data returns
ReadData ==
    /\ pc = "dataset"
    /\ IF entry = "main"
         THEN /\ ~ReadSelected(config, dataset).raised
              /\ cldf_data' = ReadSelected(config, dataset).data
         ELSE cldf_data' = ReadAll(dataset)
    /\ pc' = After(entry, pc)
    /\ UNCHANGED <<config, replaces, template, outdir, written, runFrame>>

\* read_cldf_data raises
ReadDataRaise ==
    /\ pc = "dataset"
    /\ entry = "main"
    /\ ReadSelected(config, dataset).raised
    /\ pc' = "aborted"
    /\ UNCHANGED <<config, replaces, cldf_data, template, outdir, written, runFrame>>

\* the template files load_templates opens
TemplatesNeeded(e) == {IndexTemplate(e), PageTemplate(e)}

\* load_templates returns
LoadTemplates ==
    /\ pc = "templates"
    /\ TemplatesNeeded(entry) \subseteq files.templates
    /\ template' = <<IndexTemplate(entry), PageTemplate(entry)>>
    /\ pc' = After(entry, pc)
    /\ UNCHANGED <<config, replaces, cldf_data, outdir, written, runFrame>>

\* load_templates raises
LoadTemplatesRaise ==
    /\ pc = "templates"
    /\ ~(TemplatesNeeded(entry) \subseteq files.templates)
    /\ pc' = "aborted"
    /\ UNCHANGED <<config, replaces, cldf_data, template, outdir, written, runFrame>>

\* build_html(template, replaces, "index.html", config)
BuildIndex ==
    /\ pc = "index.html"
    /\ outdir' = WriteFile(outdir, <<"index", "html">>,
                    Render(entry, template[1], replaces, <<"index", "html">>))
    /\ written' = Append(written, <<"index", "html">>)
    /\ pc' = After(entry, pc)
    /\ UNCHANGED <<config, replaces, cldf_data, template, runFrame>>

\* one page of build_tables: tabulate, replaces.copy(), the table put under
\* the fragment key, build_html
BuildTablePage ==
    /\ pc \in DOMAIN TablePages(entry)
    /\ LET page == TablePages(entry)[pc]
       IN  /\ page.data \in DOMAIN cldf_data
           /\ LET html_table == HtmlTable(entry, config, cldf_data, page.data)
                  page_replaces == Put(replaces, FragmentKey(entry), html_table)
              IN  /\ replaces' = BaseAfterCopy(replaces, page_replaces)
                  /\ outdir' = WriteFile(outdir, page.file,
                                  Render(entry, template[2], page_replaces, page.file))
                  /\ written' = Append(written, page.file)
    /\ pc' = After(entry, pc)
    /\ UNCHANGED <<config, cldf_data, template, runFrame>>

\* data[...] raises KeyError in build_tables
BuildTablePageRaise ==
    /\ pc \in DOMAIN TablePages(entry)
    /\ TablePages(entry)[pc].data \notin DOMAIN cldf_data
    /\ pc' = "aborted"
    /\ UNCHANGED <<config, replaces, cldf_data, template, outdir, written, runFrame>>

\* build_css reads template/main.css
ReadCss ==
    /\ pc = "css_source"
    /\ <<"main", "css">> \in files.templates
    /\ pc' = After(entry, pc)
    /\ UNCHANGED <<config, replaces, cldf_data, template, outdir, written, runFrame>>

\* build_css: open(css_file) raises
ReadCssRaise ==
    /\ pc = "css_source"
    /\ <<"main", "css">> \notin files.templates
    /\ pc' = "aborted"
    /\ UNCHANGED <<config, replaces, cldf_data, template, outdir, written, runFrame>>

\* build_css renders and writes main.css
BuildCss ==
    /\ pc = "main.css"
    /\ outdir' = WriteFile(outdir, <<"main", "css">>,
                    [template |-> <<"main", "css">>, context |-> replaces,
                     extras |-> EmptyDict])
    /\ written' = Append(written, <<"main", "css">>)
    /\ pc' = After(entry, pc)
    /\ UNCHANGED <<config, replaces, cldf_data, template, runFrame>>

\* the program is started again on the directory the last run left
Restart ==
    /\ pc \in {"done", "aborted"}
    /\ pc' = "config"
    /\ files' \in InputFiles
    /\ dataset' \in SiteDatasets
    /\ out0' = outdir
    /\ written' = <<>>
    /\ config' = <<>>
    /\ replaces' = EmptyDict
    /\ cldf_data' = EmptyDict
    /\ template' = <<>>
    /\ UNCHANGED <<entry, outdir, source>>

Next ==
    \/ LoadJson
    \/ PopScalars
    \/ PopScalarsRaise
    \/ ReadFragment
    \/ ReadFragmentRaise
    \/ SetPaths
    \/ ReadData
    \/ ReadDataRaise
    \/ LoadTemplates
    \/ LoadTemplatesRaise
    \/ BuildIndex
    \/ BuildTablePage
    \/ BuildTablePageRaise
    \/ ReadCss
    \/ ReadCssRaise
    \/ BuildCss
    \/ Restart

Spec == Init /\ [][Next]_vars

-----------------------------------------------------------------------------
(* Claims about a run.                                                     *)

\* the files this run has written
WrittenFiles == {written[i] : i \in 1..Len(written)}

\* the table pages this run has written, as stages of build_tables
WrittenTablePages ==
    {p \in DOMAIN TablePages(entry) : TablePages(entry)[p].file \in WrittenFiles}

\* C1: build_tables never mutates the base replacement mapping: no step of
\* build_tables changes it, so it has after the call exactly the keys and
\* values it had before, the fragment key not among them; and the mapping
\* each table page was rendered with is the base mapping plus the fragment
\* key bound to that page's own table.
C1_BaseMappingUntouched ==
    /\ [][(pc \in DOMAIN TablePages(entry)) => (replaces' = replaces)]_vars
    /\ [](\A p \in WrittenTablePages :
            LET page == TablePages(entry)[p]
                used == outdir[page.file].context
            IN  /\ FragmentKey(entry) \notin DOMAIN replaces
                /\ DOMAIN used = DOMAIN replaces \cup {FragmentKey(entry)}
                /\ \A k \in DOMAIN replaces : used[k] = replaces[k]
                /\ used[FragmentKey(entry)] =
                      HtmlTable(entry, config, cldf_data, page.data))

\* build_tables has returned after rendering pages of different tables
C1_Witness ==
    /\ pc = "done"
    /\ {"forms.html", "languages.html", "parameters.html"} \subseteq WrittenTablePages
    /\ outdir[<<"forms", "html">>].context[FragmentKey(entry)] #
          outdir[<<"languages", "html">>].context[FragmentKey(entry)]

\* the configuration names a content file that is not there
SomeFragmentMissing ==
    \E i \in 1..Len(files.config) :
        /\ Len(files.config[i].key) = 2
        /\ files.config[i].key[2] = "file"
        /\ files.config[i].value \notin DOMAIN files.contents

\* C2: if the configuration names a content file that does not exist, the run
\* never gets past load_config other than by aborting, and the output
\* directory holds what it held before the run: no file has been written.
C2_AbortsBeforeAnyOutput ==
    SomeFragmentMissing =>
        /\ pc \in LoaderStages \cup {"aborted"}
        /\ written = <<>>
        /\ outdir = out0

\* a run aborted on a missing content file, in a directory that held files
C2_Witness ==
    /\ SomeFragmentMissing
    /\ pc = "aborted"
    /\ HasKey(files.config, <<"citation">>)
    /\ DOMAIN out0 # {}

\* C9: every file the output directory held before the run is still there,
\* with the content it had unless the run has written a file of that name;
\* a file the run has written holds what the run rendered; the directory
\* holds nothing else.
C9_OnlyTargetsTouched ==
    /\ DOMAIN outdir = DOMAIN out0 \cup WrittenFiles
    /\ \A f \in DOMAIN out0 \ WrittenFiles : outdir[f] = out0[f]
    /\ \A f \in WrittenFiles :
          /\ outdir[f].template \in AllTemplates
          /\ \A k \in DOMAIN replaces : outdir[f].context[k] = replaces[k]

\* a repeated run has completed in a directory holding an unrelated file, an
\* index.html and the pages of an earlier run
C9_Witness ==
    /\ pc = "done"
    /\ <<"notes", "txt">> \in DOMAIN out0
    /\ <<"forms", "html">> \in DOMAIN out0
    /\ <<"index", "html">> \in DOMAIN out0

\* a table identifier lower-cased
Lower(w) ==
    CASE w = "Forms" -> "forms"
      [] w = "Languages" -> "languages"
      [] w = "Parameters" -> "parameters"
      [] w = "Cognates" -> "cognates"
      [] w = "Values" -> "values"
      [] OTHER -> w

\* one page per table of the dataset, named after the table
PagesOfDataset ==
    {<<Lower(Capitalize(dataset[i].local_name[1])), "html">> : i \in 1..Len(dataset)}

\* C10, as stated: a completed run has written index.html, one page for every
\* table of the dataset, and main.css, each once and nothing else.
C10_AsClaimed ==
    pc = "done" =>
        /\ WrittenFiles =
              {<<"index", "html">>, <<"main", "css">>} \cup PagesOfDataset
        /\ Cardinality(WrittenFiles) = Len(written)

\* the components a completed run needs in the dataset
TablesNeeded(e) ==
    IF e = "main"
      THEN {<<"Form", "Table">>, <<"Language", "Table">>, <<"Parameter", "Table">>}
      ELSE {<<"Form", "Table">>, <<"Language", "Table">>, <<"Parameter", "Table">>,
            <<"Cognate", "Table">>}

\* C10, amended: a completed run has written a fixed list of files, each
\* once and in this order, whatever other tables the dataset holds:
\* index.html, forms.html, languages.html, parameters.html, and from
\* render_html also cognates.html and main.css; the dataset of a completed
\* run holds the table of every one of these pages.
C10_FixedFiles ==
    pc = "done" =>
        /\ written =
              << <<"index", "html">>, <<"forms", "html">>, <<"languages", "html">>,
                 <<"parameters", "html">> >> \o
              (IF entry = "main" THEN <<>>
               ELSE << <<"cognates", "html">>, <<"main", "css">> >>)
        /\ \A c \in TablesNeeded(entry) : HasTable(dataset, c)

\* render_html has completed on a dataset holding a table it has no page for
C10_Witness ==
    /\ pc = "done"
    /\ entry = "render_html"
    /\ HasTable(dataset, <<"Value", "Table">>)
    /\ <<"main", "css">> \in WrittenFiles

-----------------------------------------------------------------------------
(* Claims about load_config.                                               *)

\* load_config has just returned
LoadConfigReturned == pc = After(entry, "sidebar")

\* the keys of config.json that load_config recognises
RecognizedConfigKeys ==
    { <<"title">>, <<"description">>, <<"author">>, <<"favicon">>, <<"mainlink">>,
      <<"citation">>, <<"footer", "file">>, <<"index", "file">>,
      <<"sidebar", "file">> }

\* C11: when load_config returns, the replacement mapping has exactly the
\* keys title, description, author, favicon, mainlink, citation, footer,
\* home_sb_main and home_sidebar; a scalar key holds the value config.json
\* gives it, a content key holds the converted text of the file config.json
\* names for it; the returned configuration is config.json without the
\* recognised keys, the other entries unchanged and in place.
C11_LoadConfigResult ==
    LoadConfigReturned =>
        /\ DOMAIN replaces =
              { "title", "description", "author", "favicon", "mainlink", "citation",
                "footer", "home_sb_main", "home_sidebar" }
        /\ \A k \in { "title", "description", "author", "favicon", "mainlink",
                      "citation" } :
              replaces[k] = Get(files.config, <<k>>)
        /\ replaces["footer"] =
              Markdown(files.contents[Get(files.config, <<"footer", "file">>)])
        /\ replaces["home_sb_main"] =
              Markdown(files.contents[Get(files.config, <<"index", "file">>)])
        /\ replaces["home_sidebar"] =
              Markdown(files.contents[Get(files.config, <<"sidebar", "file">>)])
        /\ config = SelectSeq(files.config, LAMBDA e : e.key \notin RecognizedConfigKeys)
        /\ \A key \in RecognizedConfigKeys : ~HasKey(config, key)

\* load_config has returned, the table and path entries left in the
\* configuration and the three content keys holding different texts
C11_Witness ==
    /\ LoadConfigReturned
    /\ replaces["home_sidebar"] # replaces["footer"]
    /\ replaces["home_sb_main"] # replaces["footer"]
    /\ Len(config) = 4

-----------------------------------------------------------------------------
(* Claims about the order of the stages.                                   *)

\* the stages that read or look up an input: config.json, the content
\* files, the dataset, the template sources
InputStages == LoaderStages \cup {"paths", "dataset", "templates", "css_source"}

\* C12: configuration, content files, dataset and template sources are all
\* read before the first output file is written: no stage that reads an
\* input is reached once a file has been written, and a run that failed has
\* written no file.
C12_InputsBeforeOutputs ==
    /\ pc \in InputStages => written = <<>>
    /\ pc = "aborted" => written = <<>>

\* the part of C12 that holds: load_config, read_cldf_data and load_templates
\* have returned before the first file is written
C12_LoadersBeforeOutputs ==
    pc \in LoaderStages \cup {"paths", "dataset", "templates"} => written = <<>>

-----------------------------------------------------------------------------
(* read_cldf_data of input_cldf.py on its own.                             *)

\* the tables a dataset description may list first: forms.csv with its two
\* columns in either schema order
SchemaTables ==
    FormTables \cup {[t EXCEPT !.columns = <<"B", "A">>] : t \in FormTables}

\* the tables a dataset description may list second
ExtraTables ==
    LanguageTables \cup
    {[t EXCEPT !.local_name = <<"forms", "extra", "csv">>] : t \in LanguageTables}

\* the dataset descriptions read_cldf_data may be given
FullDatasets ==
    {<<t>> : t \in SchemaTables} \cup
    {<<t, u>> : t \in SchemaTables, u \in ExtraTables}

ReadAllInit ==
    /\ dataset \in FullDatasets
    /\ cldf_data = EmptyDict
    /\ pc = "read_cldf_data"
    /\ config = Unused
    /\ template = Unused /\ replaces = Unused /\ source = Unused
    /\ entry = Unused /\ files = Unused
    /\ outdir = Unused /\ out0 = Unused /\ written = Unused

\* return cldf_data
ReadAllReturn ==
    /\ pc = "read_cldf_data"
    /\ cldf_data' = ReadAll(dataset)
    /\ pc' = "returned"
    /\ UNCHANGED <<config, dataset>>
    /\ UNCHANGED notReadVars

ReadAllNext == ReadAllReturn

ReadAllSpec == ReadAllInit /\ [][ReadAllNext]_vars

\* the entry read_cldf_data should hold for table t: the column names, then
\* one row per source row, cell i the flattened value of column i
ExpectedEntry(t) ==
    <<HeaderRow(t.columns)>> \o
    [r \in 1..Len(t.rows) |->
        [i \in 1..Len(t.columns) |-> Flatten(t.rows[r][t.columns[i]])]]

\* the name read_cldf_data files table t under
EntryName(t) == <<Capitalize(t.local_name[1])>>

\* C13: the full-table read_cldf_data returns one entry for every table of
\* the dataset description; the entry of a table has the column names in
\* schema order as its first row, then one row per source row in source
\* order, every row with one cell per column, cell i the flattened value of
\* column i.
C13_OneEntryPerTable ==
    pc = "returned" =>
        /\ Cardinality(DOMAIN cldf_data) = Len(dataset)
        /\ \A i \in 1..Len(dataset) :
              /\ EntryName(dataset[i]) \in DOMAIN cldf_data
              /\ cldf_data[EntryName(dataset[i])] = ExpectedEntry(dataset[i])

\* the part of C13 that holds: every entry is the entry of the last table
\* filed under its name
C13_EntryOfLastTable ==
    pc = "returned" =>
        /\ DOMAIN cldf_data = {EntryName(dataset[i]) : i \in 1..Len(dataset)}
        /\ \A i \in 1..Len(dataset) :
              (\A j \in 1..Len(dataset) :
                  EntryName(dataset[j]) = EntryName(dataset[i]) => j <= i)
              => cldf_data[EntryName(dataset[i])] = ExpectedEntry(dataset[i])

=============================================================================
